---- MODULE Spec2Model ----
(***************************************************************************)
(* Model of aiohttp_client_cache/response.py: CachedResponse (the snapshot *)
(* of a ClientResponse, its pickled state and the views rebuilt from it)   *)
(* and CachedStreamReader (the replay stream over the captured body).      *)
(*                                                                         *)
(* Python values are encoded with one TLA+ type per attribute:             *)
(*   bytes            a sequence of byte values                            *)
(*   Optional[x]      << >> for None, << x >> for a value                  *)
(*   an object        its __dict__, a record keyed by attribute name       *)
(*   a StreamReader   [kind, buf, pos, gen, eof]: the data fed to it, how  *)
(*                    much of it has been taken out, gen, which tells a    *)
(*                    stream from the one its owner held before it, and    *)
(*                    whether feed_eof() has been called                   *)
(*   expires          [kind, t]: None, an aware datetime t, or a value     *)
(*                    that utcnow() cannot be compared with                *)
(***************************************************************************)
EXTENDS Integers, Sequences, FiniteSets, TLC

VARIABLES
    orig,        \* the ClientResponse as the transport delivered it (never written)
    objs,        \* object id -> Optional[__dict__]; 0 is the response build is called on
    pc,          \* position of postprocess() on object 0
    ppExpires,   \* postprocess()'s argument `expires`
    atCall,      \* Optional: object 0 as it was when postprocess() was called
    hist,        \* history entries postprocess() has built so far
    stored,      \* Optional[state]: what __getstate__ handed to the cache
    made,        \* per object: the number of its latest CachedStreamReader (0 or 1)
    got,         \* per object: what its caller has read from its current stream, and how
    prev,        \* Optional: the object last reset after a read to the end, and what it had read
    ret          \* Optional: how the last call ended (postprocess that raised, pickling,
                 \* is_expired, request_info)

vars == <<orig, objs, pc, ppExpires, atCall, hist, stored, made, got, prev, ret>>

----------------------------------------------------------------------------
(* Bounds of the model *)

MaxBody == 2
MaxTime == 2
MaxChunk == 1

Views == {1, 2}
ObjIds == {0} \cup Views
Times == 0..MaxTime

----------------------------------------------------------------------------
(* Values *)

None == << >>
Some(x) == << x >>
IsNone(o) == o = << >>

\* The bodies a server sends: one of every length, all bytes distinct, so that a
\* lost, repeated or reordered byte shows.
Bodies == { [i \in 1..n |-> i] : n \in 0..MaxBody }

Drop(s, n) == SubSeq(s, n + 1, Len(s))
Take(s, n) == SubSeq(s, 1, n)
Min(a, b) == IF a < b THEN a ELSE b

ExpNone == [kind |-> "None", t |-> 0]
ExpAt(t) == [kind |-> "datetime", t |-> t]
ExpIncomparable == [kind |-> "incomparable", t |-> 0]


----------------------------------------------------------------------------
(* StreamReader *)

\* The transport's stream of a ClientResponse: `wire` is everything the server
\* sends, `pos` how much of it has been taken out of the stream.
LiveStream(wire, pos) ==
    [kind |-> "live", buf |-> wire, pos |-> pos, gen |-> 0, eof |-> pos = Len(wire)]

\* CachedStreamReader.__init__ without its feed_data(body).
CachedStreamReaderUnfed(body, gen) ==
    [kind |-> "cached", buf |-> << >>, pos |-> 0, gen |-> gen, eof |-> TRUE]

\* CachedStreamReader.__init__ without its feed_eof().
CachedStreamReaderNoEof(body, gen) ==
    [kind |-> "cached",
     buf  |-> IF IsNone(body) THEN << >> ELSE body[1],
     pos  |-> 0,
     gen  |-> gen,
     eof  |-> FALSE]

\* CachedStreamReader.__init__: body or b'', feed_data(body), feed_eof().
CachedStreamReader(body, gen) ==
    [kind |-> "cached",
     buf  |-> IF IsNone(body) THEN << >> ELSE body[1],
     pos  |-> 0,
     gen  |-> gen,
     eof  |-> TRUE]

\* StreamReader.read(n): n = -1 takes everything up to EOF, n > 0 at most n bytes.
\* A read(-1) returns once EOF has been fed.
StreamRead(s, n) ==
    LET left == Len(s.buf) - s.pos
        k    == IF n < 0 THEN left ELSE Min(n, left)
    IN  [data   |-> SubSeq(s.buf, s.pos + 1, s.pos + k),
         stream |-> [s EXCEPT !.pos = s.pos + k, !.eof = @ \/ n < 0]]

\* Whether read(n) has to wait for the transport: never once EOF has been fed;
\* before that, read(-1) waits for EOF and read(n) for data when none is buffered.
Waits(s, n) == ~s.eof /\ (n < 0 \/ s.pos = Len(s.buf))

AtEof(s) == s.pos = Len(s.buf)

----------------------------------------------------------------------------
(* Headers *)

\* bytes.decode('utf-8', 'surrogateescape') on header bytes: ASCII is kept, a
\* well-formed two-byte sequence is one code point, any other byte b >= 128 becomes
\* the lone surrogate U+DC00 + b.
\* The bytes decoded as latin-1: every byte its own code point.
decodeLatin1(bs) == bs

RECURSIVE decode(_)
decode(bs) ==
    IF bs = << >> THEN << >>
    ELSE IF bs[1] < 128 THEN << bs[1] >> \o decode(Drop(bs, 1))
    ELSE IF /\ bs[1] >= 194 /\ bs[1] <= 223 /\ Len(bs) >= 2
            /\ bs[2] >= 128 /\ bs[2] <= 191
         THEN << (bs[1] - 192) * 64 + (bs[2] - 128) >> \o decode(Drop(bs, 2))
    ELSE << 56320 + bs[1] >> \o decode(Drop(bs, 1))

decode_header(header) == << decode(header[1]), decode(header[2]) >>

\* CIMultiDictProxy(CIMultiDict([...])): the pairs, in order, repeated names kept.
DecodeHeaders(raw) == [i \in 1..Len(raw) |-> decode_header(raw[i])]

\* Header names and values on the wire.  "X: a\xff" and "x: \xc3\xa9" give a repeated
\* name, an undecodable byte and a two-byte character; "C: u" stands for
\* "Content-Type: text/html; charset=utf-8".
HdrX == << <<88>>, <<97, 255>> >>
Hdrx == << <<120>>, <<195, 169>> >>
HdrCharset == << <<67>>, <<117>> >>
RawPlain == << HdrX, Hdrx >>
RawCharset == << HdrX, HdrCharset, Hdrx >>

\* The charset parameter of the Content-Type header, as ClientResponse.get_encoding
\* looks it up in self.headers: Optional[str].
HeaderCharset(headers) ==
    IF \E i \in 1..Len(headers) : headers[i] = decode_header(HdrCharset)
    THEN Some("utf-8") ELSE None

----------------------------------------------------------------------------
(* ClientResponse, as aiohttp hands it over *)

Handle(name, present) == IF present THEN Some(name) ELSE None

\* A response in one of the states a caller can hold it in:
\*   "open"      headers received, body still in the transport's stream
\*   "released"  released without its body having been read (a followed redirect)
\*   "read"      read() completed, then released
ClientResponse(url, status, raw, wire, mode, history) ==
    [method        |-> "GET",
     _url          |-> url,
     _writer       |-> Handle("writer", mode = "open"),
     _continue     |-> None,
     _timer        |-> Some("timer"),
     _request_info |-> Some("request_info"),
     _traces       |-> << >>,
     _loop         |-> Some("loop"),
     _session      |-> Handle("session", mode = "open"),
     _closed       |-> mode # "open",
     _protocol     |-> Some("protocol"),
     _connection   |-> Handle("connection", mode = "open"),
     version       |-> << 1, 1 >>,
     status        |-> status,
     reason        |-> "OK",
     _headers      |-> DecodeHeaders(raw),
     _raw_headers  |-> raw,
     content       |-> LiveStream(wire, IF mode = "read" THEN Len(wire) ELSE 0),
     cookies       |-> << >>,
     _history      |-> history,
     _body         |-> IF mode = "read" THEN Some(wire) ELSE None,
     _released     |-> mode # "open"]

----------------------------------------------------------------------------
(* CachedResponse *)

\* CachedResponse.__init__ over the attributes of response r, at time now.
CachedResponseInit(r, now) ==
    [method           |-> r.method,
     _url             |-> r._url,
     _writer          |-> r._writer,
     _continue        |-> r._continue,
     _timer           |-> r._timer,
     _request_info    |-> r._request_info,
     _traces          |-> r._traces,
     _loop            |-> r._loop,
     _session         |-> r._session,
     _resolve_charset |-> Some("resolve_charset"),
     _cache           |-> << >>,
     _content         |-> Some(r.content),
     created_at       |-> now,
     expires          |-> ExpNone,
     last_used        |-> now,
     from_cache       |-> TRUE,
     _headers         |-> r._headers,
     _raw_headers     |-> r._raw_headers,
     status           |-> r.status,
     _history         |-> r._history,
     _body            |-> r._body,
     _closed          |-> r._closed,
     _protocol        |-> r._protocol,
     _connection      |-> r._connection,
     version          |-> r.version,
     reason           |-> r.reason,
     cookies          |-> r.cookies,
     _released        |-> r._released]

\* Set, add or remove attributes of an object.
With(obj, upd) ==
    [k \in DOMAIN obj \cup DOMAIN upd |-> IF k \in DOMAIN upd THEN upd[k] ELSE obj[k]]
Without(obj, keys) == [k \in DOMAIN obj \ keys |-> obj[k]]

\* The content property without its test of self._content: a stream per access.
contentAlwaysNew(obj, gen) ==
    [obj EXCEPT !._content = Some(CachedStreamReader(obj._body, gen))]

\* The content property: the stream is built from _body on the first access.
\* gen numbers the CachedStreamReader this access would construct.
content(obj, gen) ==
    IF IsNone(obj._content)
    THEN [obj EXCEPT !._content = Some(CachedStreamReader(obj._body, gen))]
    ELSE obj

\* reset() that leaves the stream in place.
resetKeepsStream(obj) == obj

\* reset() that also drops the body.
resetDropsBody(obj) == [obj EXCEPT !._content = None, !._body = None]

\* reset()
reset(obj) == [obj EXCEPT !._content = None]

\* ClientResponse.read() raises ClientConnectionError on a released response: the
\* release put that exception on its stream, and a body already read is refused.
ReadRaises(self) == self._released

\* A read() that returns after the first chunk of the stream.
readFirstChunk(self, gen) ==
    IF IsNone(self._body)
    THEN LET o == content(self, gen)
             r == StreamRead(o._content[1], 1)
         IN  [o EXCEPT !._body = Some(r.data), !._content = Some(r.stream)]
    ELSE self

\* ClientResponse.read() where it does not raise: a body not yet in memory is
\* whatever is left in the content stream; reaching EOF gives the connection back.
read(self, gen) ==
    IF IsNone(self._body)
    THEN LET o == content(self, gen)
             r == StreamRead(o._content[1], -1)
         IN  [o EXCEPT !._body = Some(r.data), !._content = Some(r.stream),
                       !._connection = None, !._session = None,
                       !._writer = None, !._closed = TRUE]
    ELSE self

\* ClientResponse.release(): the stream gets the "Connection closed" exception.
release(self) ==
    [self EXCEPT !._released = TRUE, !._closed = TRUE, !._connection = None,
                 !._session = None, !._writer = None]

\* ClientResponse.get_encoding(): the charset of the Content-Type header, else the
\* session's resolver applied to the body, which needs the body to have been read.
GetEncodingRaises(self) == IsNone(HeaderCharset(self._headers)) /\ IsNone(self._body)
\* What the session's resolver (_resolve_charset) answers for the body.
ResolveCharset(self) == "windows-1252"
ClientResponseGetEncoding(self) ==
    IF IsNone(HeaderCharset(self._headers))
    THEN ResolveCharset(self)
    ELSE HeaderCharset(self._headers)[1]

\* get_encoding() as ClientResponse defines it, looked up at every call; a view
\* has no _resolve_charset to fall back on.
get_encodingInherited(self) ==
    IF ~IsNone(HeaderCharset(self._headers)) THEN HeaderCharset(self._headers)[1]
    ELSE IF "_resolve_charset" \in DOMAIN self THEN ResolveCharset(self)
    ELSE "AttributeError"

\* get_encoding()
get_encoding(self) == self._encoding

\* __getstate__: a copy of __dict__ without the listed attributes.
StateExcluded ==
    {"_request_info", "_headers", "_cache", "_loop", "_timer", "_resolve_charset",
     "_protocol", "_content", "_session"}
getstate(self) == Without(self, StateExcluded)

\* A __setstate__ that stamps the view with the time of the cache hit.
setstateStamped(state) ==
    With(state, [_cache    |-> << >>,
                 _content  |-> None,
                 _headers  |-> DecodeHeaders(state._raw_headers),
                 last_used |-> state.last_used + 1])

\* __setstate__
setstate(state) ==
    With(state, [_cache   |-> << >>,
                 _content |-> None,
                 _headers |-> DecodeHeaders(state._raw_headers)])

\* pickle.dumps / pickle.loads of a response: __getstate__ and __setstate__, of
\* the response and of the responses in its _history.
RECURSIVE dumps(_)
dumps(self) ==
    LET st == getstate(self)
    IN  [st EXCEPT !._history = [i \in 1..Len(st._history) |-> dumps(st._history[i])]]
RECURSIVE loads(_)
loads(state) ==
    setstate([state EXCEPT !._history =
                 [i \in 1..Len(state._history) |-> loads(state._history[i])]])

\* The attributes that hold, when set, an object bound to the transport, the
\* event loop or the session: the connection, its protocol, the loop, the timer,
\* the session, the writer task, the Future of an expect100 request, and the
\* Trace objects of the session's trace configs (each keeps the session).
HandleKeys ==
    {"_connection", "_protocol", "_loop", "_timer", "_session", "_writer", "_continue",
     "_traces"}

\* The handles a state holds, in itself or in the states of its history.
RECURSIVE HandlesIn(_)
HandlesIn(st) ==
    { k \in DOMAIN st \cap HandleKeys : st[k] # None }
    \cup UNION { HandlesIn(st._history[i]) : i \in 1..Len(st._history) }

\* request_info
request_info(self) ==
    [url |-> self._url, method |-> self.method, headers |-> self._headers,
     real_url |-> self._url]

\* The comparison with >= for >.
ExpiredCompareInclusive(self, now) ==
    IF "expires" \notin DOMAIN self THEN [raised |-> "AttributeError", value |-> FALSE]
    ELSE IF self.expires.kind = "None" THEN [raised |-> "", value |-> FALSE]
    ELSE IF self.expires.kind = "datetime"
         THEN [raised |-> "", value |-> now >= self.expires.t]
    ELSE [raised |-> "TypeError", value |-> FALSE]

\* An except clause that leaves TypeError out.
ExpiredCaughtNarrow == {"AttributeError", "ValueError"}

\* is_expired.  The comparison raises AttributeError without an expires attribute
\* and TypeError against a value a datetime cannot be compared with; the except
\* clause turns the exceptions it names into True.
ExpiredCaught == {"AttributeError", "TypeError", "ValueError"}
ExpiredCompare(self, now) ==
    IF "expires" \notin DOMAIN self THEN [raised |-> "AttributeError", value |-> FALSE]
    ELSE IF self.expires.kind = "None" THEN [raised |-> "", value |-> FALSE]
    ELSE IF self.expires.kind = "datetime"
         THEN [raised |-> "", value |-> now > self.expires.t]
    ELSE [raised |-> "TypeError", value |-> FALSE]
is_expired(self, now) ==
    LET c == ExpiredCompare(self, now)
    IN  IF c.raised \in ExpiredCaught THEN [raised |-> "", value |-> TRUE] ELSE c

\* Lines 154-156 without the assignment to self.content.
FreezeKeepsStream(self, expires, gen) == [self EXCEPT !.expires = expires]

\* postprocess(), lines 151-156: drain unless released, then swap in the replay
\* stream and set expires.
Drain(self, gen) == IF ~self._released THEN read(self, gen) ELSE self
Freeze(self, expires, gen) ==
    [self EXCEPT !._content = Some(CachedStreamReader(self._body, gen)),
                 !.expires = expires]

\* postprocess() as one call, used for the entries of _history: the result and
\* whether it raised (get_encoding on a body never read, or an entry that raised).
RECURSIVE postprocess(_, _, _)
postprocess(self, expires, now) ==
    LET o1    == Freeze(Drain(self, 1), expires, 1)
        n     == Len(o1._history)
        built == [i \in 1..n |->
                    postprocess(CachedResponseInit(o1._history[i], now), ExpNone, now)]
        o2    == [o1 EXCEPT !._history = [i \in 1..n |-> built[i].obj]]
        err   == IF \E i \in 1..n : built[i].err # ""
                 THEN built[CHOOSE i \in 1..n : built[i].err # ""
                                /\ \A j \in 1..(i - 1) : built[j].err = ""].err
                 ELSE IF GetEncodingRaises(o2) THEN "RuntimeError" ELSE ""
    IN  [err |-> err,
         obj |-> IF err = "" THEN With(o2, [_encoding |-> ClientResponseGetEncoding(o2)])
                 ELSE IF \E i \in 1..n : built[i].err # "" THEN o1
                 ELSE o2]

----------------------------------------------------------------------------
(* The responses build is called on *)

\* Redirect responses as they sit in a history: released unread with a charset
\* header (the usual case), still open with a body on the wire and a history of
\* its own, and released unread without a charset.
EntryRead == ClientResponse("u3", 301, RawCharset, <<6>>, "read", << >>)
EntryReleased == ClientResponse("u1", 302, RawCharset, <<9>>, "released", << >>)
EntryOpen == ClientResponse("u2", 307, RawPlain, <<7, 8>>, "open", << EntryRead >>)
EntryNoCharset == ClientResponse("u4", 302, RawPlain, <<9>>, "released", << >>)

Histories ==
    { << >>, << EntryReleased >>, << EntryReleased, EntryOpen >>,
      << EntryOpen, EntryReleased >>, << EntryNoCharset >> }

\* The responses build is called on: every body without a history, the longest
\* body without a charset header, and the longest body behind every history.
FullBody == [i \in 1..MaxBody |-> i]
LiveResponses ==
    { ClientResponse("u0", 200, RawCharset, wire, "open", << >>) : wire \in Bodies }
    \cup { ClientResponse("u0", 200, RawPlain, FullBody, "open", << >>) }
    \cup { ClientResponse("u0", 200, RawCharset, FullBody, "open", h) : h \in Histories }

\* The response to a request sent with expect100 under a session that has a
\* TraceConfig: it keeps the request's Future and the session's Trace objects.
Traced(r) == [r EXCEPT !._continue = Some("future"), !._traces = << "trace" >>]

\* The expires a caller passes: none, or a time with times before and after it.
Expiries == {ExpNone} \cup { ExpAt(t) : t \in 1..(MaxTime - 1) }

\* The time at which postprocess() constructs the entries of a history; the
\* response itself was constructed at 0.
EntryTimes == {MaxTime - 1}

\* What the await of read() ends with when the body does not arrive: the
\* transport's error, or the cancellation of the task that runs postprocess().
DrainErrors == {"ClientPayloadError", "CancelledError"}

\* postprocess() ended by raising `raised`; `drain` is the error the read of a
\* body ended with, "" when every read returned.
Raised(raised, drain) == Some([op |-> "postprocess", raised |-> raised, drain |-> drain])

\* Nothing read yet.  how becomes "all" (read()), "chunk" (iter_chunked) or "mixed".
NoReads == [data |-> << >>, how |-> ""]

\* A response of R as aiohttp hands it over, wrapped in CachedResponse.
InitWith(R) ==
    /\ orig \in R
    /\ objs = [o \in ObjIds |-> IF o = 0 THEN Some(CachedResponseInit(orig, 0)) ELSE None]
    /\ pc = "live"
    /\ ppExpires = ExpNone
    /\ atCall = None
    /\ hist = << >>
    /\ stored = None
    /\ made = [o \in ObjIds |-> 0]
    /\ got = [o \in ObjIds |-> NoReads]
    /\ prev = None
    /\ ret = None

Init == InitWith(LiveResponses)

Self == objs[0][1]

\* The number that tells the next stream of object o from its current one.
NextGen(o) == 1 - made[o]

----------------------------------------------------------------------------
(* What a caller does with the response before build *)

\* await response.read()
LiveRead ==
    /\ pc = "live"
    /\ ~ReadRaises(Self)
    /\ IsNone(Self._body)
    /\ objs' = [objs EXCEPT ![0] = Some(read(Self, NextGen(0)))]
    /\ UNCHANGED <<orig, pc, ppExpires, atCall, hist, stored, made, got, prev, ret>>

\* await response.content.read(n)
LiveStreamRead ==
    /\ pc = "live"
    /\ ~Self._released
    /\ IsNone(Self._body)
    /\ \E n \in 1..MaxChunk :
          LET r == StreamRead(Self._content[1], n)
          IN  /\ r.data # << >>
              /\ objs' = [objs EXCEPT ![0] = Some([Self EXCEPT !._content = Some(r.stream)])]
    /\ UNCHANGED <<orig, pc, ppExpires, atCall, hist, stored, made, got, prev, ret>>

\* response.release()
LiveRelease ==
    /\ pc = "live"
    /\ ~Self._released
    /\ objs' = [objs EXCEPT ![0] = Some(release(Self))]
    /\ UNCHANGED <<orig, pc, ppExpires, atCall, hist, stored, made, got, prev, ret>>

----------------------------------------------------------------------------
(* postprocess() on object 0, one action per stretch between its awaits *)

\* Lines 149-156 up to the await of read(); a released response is not read.
PostprocessCall ==
    /\ pc = "live"
    /\ \E e \in Expiries :
          /\ ppExpires' = e
          /\ atCall' = Some(Self)
          /\ IF Self._released
             THEN /\ objs' = [objs EXCEPT ![0] = Some(Freeze(Self, e, NextGen(0)))]
                  /\ made' = [made EXCEPT ![0] = NextGen(0)]
                  /\ pc' = "history"
             ELSE /\ pc' = "draining"
                  /\ UNCHANGED <<objs, made>>
    /\ UNCHANGED <<orig, hist, stored, got, prev, ret>>

\* read() returns: lines 154-156.
DrainDone ==
    /\ pc = "draining"
    /\ objs' = [objs EXCEPT ![0] =
                    Some(Freeze(read(Self, NextGen(0)), ppExpires, NextGen(0)))]
    /\ made' = [made EXCEPT ![0] = NextGen(0)]
    /\ pc' = "history"
    /\ UNCHANGED <<orig, ppExpires, atCall, hist, stored, got, prev, ret>>

\* The await of read() ends with an error that postprocess() catches and goes on
\* from, as with a released response.
DrainFailSwallowed ==
    /\ pc = "draining"
    /\ IsNone(Self._body)
    /\ \E e \in DrainErrors :
          ret' = Some([op |-> "postprocess", raised |-> "", drain |-> e])
    /\ objs' = [objs EXCEPT ![0] = Some(Freeze(release(Self), ppExpires, NextGen(0)))]
    /\ made' = [made EXCEPT ![0] = NextGen(0)]
    /\ pc' = "history"
    /\ UNCHANGED <<orig, ppExpires, atCall, hist, stored, got, prev>>

\* Line 152, the await of read() ends with an error (a body in memory is
\* returned without an await): read() has closed the response, and postprocess(),
\* which has no handler, ends with that error.
DrainFail ==
    /\ pc = "draining"
    /\ IsNone(Self._body)
    /\ \E e \in DrainErrors : ret' = Raised(e, e)
    /\ objs' = [objs EXCEPT ![0] = Some(release(Self))]
    /\ pc' = "failed"
    /\ UNCHANGED <<orig, ppExpires, atCall, hist, stored, made, got, prev>>

\* Whether postprocess() of r awaits a body: of r itself (not released, body
\* not in memory) or of a response in its history.
RECURSIVE Drains(_)
Drains(r) ==
    \/ ~r._released /\ IsNone(r._body)
    \/ \E i \in 1..Len(r._history) : Drains(r._history[i])

\* The history collected in reverse.
HistoryEntryReversed ==
    /\ pc = "history"
    /\ Len(hist) < Len(Self._history)
    /\ \E now \in EntryTimes :
         LET b == postprocess(CachedResponseInit(Self._history[Len(hist) + 1], now),
                              ExpNone, now)
         IN  IF b.err # ""
             THEN pc' = "failed" /\ ret' = Raised(b.err, "") /\ UNCHANGED hist
             ELSE hist' = << b.obj >> \o hist /\ UNCHANGED <<pc, ret>>
    /\ UNCHANGED <<orig, objs, ppExpires, atCall, stored, made, got, prev>>

\* The entries postprocessed with the expires of the response.
HistoryEntryInheritsExpires ==
    /\ pc = "history"
    /\ Len(hist) < Len(Self._history)
    /\ \E now \in EntryTimes :
         LET b == postprocess(CachedResponseInit(Self._history[Len(hist) + 1], now),
                              ppExpires, now)
         IN  IF b.err # ""
             THEN pc' = "failed" /\ ret' = Raised(b.err, "") /\ UNCHANGED hist
             ELSE hist' = Append(hist, b.obj) /\ UNCHANGED <<pc, ret>>
    /\ UNCHANGED <<orig, objs, ppExpires, atCall, stored, made, got, prev>>

\* Lines 158-188, one entry of _history: a CachedResponse is constructed from it
\* (at time now) and postprocessed with no expires.
HistoryEntry ==
    /\ pc = "history"
    /\ Len(hist) < Len(Self._history)
    /\ \E now \in EntryTimes :
         LET b == postprocess(CachedResponseInit(Self._history[Len(hist) + 1], now),
                              ExpNone, now)
         IN  IF b.err # ""
             THEN pc' = "failed" /\ ret' = Raised(b.err, "") /\ UNCHANGED hist
             ELSE hist' = Append(hist, b.obj) /\ UNCHANGED <<pc, ret>>
    /\ UNCHANGED <<orig, objs, ppExpires, atCall, stored, made, got, prev>>

\* Lines 161-185, the await of an entry's postprocess() ends with the error of a
\* read in it: postprocess() ends with that error, after lines 154-156.
HistoryEntryFail ==
    /\ pc = "history"
    /\ Len(hist) < Len(Self._history)
    /\ Drains(Self._history[Len(hist) + 1])
    /\ \E e \in DrainErrors : ret' = Raised(e, e)
    /\ pc' = "failed"
    /\ UNCHANGED <<orig, objs, ppExpires, atCall, hist, stored, made, got, prev>>

\* Lines 159 and 190-195: _history is assigned, the encoding resolved, self returned.
PostprocessReturn ==
    /\ pc = "history"
    /\ Len(hist) = Len(Self._history)
    /\ LET o == [Self EXCEPT !._history = hist]
       IN  IF GetEncodingRaises(o)
           THEN /\ objs' = [objs EXCEPT ![0] = Some(o)]
                /\ pc' = "failed"
                /\ ret' = Raised("RuntimeError", "")
           ELSE /\ objs' = [objs EXCEPT ![0] =
                               Some(With(o, [_encoding |-> ClientResponseGetEncoding(o)]))]
                /\ pc' = "built"
                /\ UNCHANGED ret
    /\ UNCHANGED <<orig, ppExpires, atCall, hist, stored, made, got, prev>>

----------------------------------------------------------------------------
(* The cache: the pickled state and the views rebuilt from it *)

\* The backend pickles the built response.
Save ==
    /\ pc = "built"
    /\ IsNone(stored)
    /\ HandlesIn(dumps(Self)) = {}
    /\ stored' = Some(dumps(Self))
    /\ UNCHANGED <<orig, objs, pc, ppExpires, atCall, hist, made, got, prev, ret>>

\* Pickling a built response whose state holds a handle: __getstate__ returns
\* the state with it, and the pickler, which cannot pickle a Future or a Trace's
\* session, raises TypeError where it was called; nothing is stored.
SaveFail ==
    /\ pc = "built"
    /\ IsNone(stored)
    /\ HandlesIn(dumps(Self)) # {}
    /\ ret' = Some([op |-> "dumps", raised |-> "TypeError", at |-> "pickler",
                    state |-> dumps(Self)])
    /\ UNCHANGED <<orig, objs, pc, ppExpires, atCall, hist, stored, made, got, prev>>

\* A cache hit that hands every caller the same object.
LoadShared(v, st) ==
    /\ objs' = [o \in ObjIds |-> IF o \in Views THEN Some(loads(st)) ELSE objs[o]]
    /\ made' = [o \in ObjIds |-> IF o \in Views THEN 0 ELSE made[o]]
    /\ got' = [o \in ObjIds |-> IF o \in Views THEN NoReads ELSE got[o]]
    /\ prev' = None
    /\ UNCHANGED <<orig, pc, ppExpires, atCall, hist, stored, ret>>

\* A cache hit: a new object, unpickled from the state st.
Load(v, st) ==
    /\ objs' = [objs EXCEPT ![v] = Some(loads(st))]
    /\ made' = [made EXCEPT ![v] = 0]
    /\ got' = [got EXCEPT ![v] = NoReads]
    /\ prev' = IF ~IsNone(prev) /\ prev[1].o = v THEN None ELSE prev
    /\ UNCHANGED <<orig, pc, ppExpires, atCall, hist, stored, ret>>

Rehydrate(v) ==
    /\ ~IsNone(stored)
    /\ Load(v, stored[1])

\* A cache hit on a record of the stored state that another serializer or version
\* wrote: its expires is not a datetime, or is missing.
ForeignStates ==
    { With(stored[1], [expires |-> ExpIncomparable]), Without(stored[1], {"expires"}) }

RehydrateForeign(v) ==
    /\ ~IsNone(stored)
    /\ \E st \in ForeignStates : Load(v, st)

----------------------------------------------------------------------------
(* What a caller does with a built response or a view *)

Frozen(o) == ~IsNone(objs[o]) /\ (o = 0 => pc = "built")

\* Whether the next access to content constructs a stream.
Constructs(o) == IsNone(objs[o][1]._content)

\* response.content
ContentAccess(o) ==
    /\ Frozen(o)
    /\ Constructs(o)
    /\ objs' = [objs EXCEPT ![o] = Some(content(objs[o][1], NextGen(o)))]
    /\ made' = [made EXCEPT ![o] = NextGen(o)]
    /\ UNCHANGED <<orig, pc, ppExpires, atCall, hist, stored, got, prev, ret>>

\* await response.content.read(n); n = -1 is read(), n > 0 one step of
\* iter_chunked(n).  The caller keeps what it reads up to the first read that ends
\* at EOF; reads after that return b'' and add nothing.
ContentRead(o, n, kind) ==
    /\ Frozen(o)
    /\ LET obj  == content(objs[o][1], NextGen(o))
           r    == StreamRead(obj._content[1], n)
           done == got[o].how # "" /\ AtEof(obj._content[1])
       IN  /\ objs' = [objs EXCEPT ![o] = Some([obj EXCEPT !._content = Some(r.stream)])]
           /\ got' = [got EXCEPT ![o] =
                        IF done THEN @
                        ELSE [data |-> @.data \o r.data,
                              how  |-> IF @.how \in {"", kind} THEN kind ELSE "mixed"]]
    /\ made' = [made EXCEPT ![o] = IF Constructs(o) THEN NextGen(o) ELSE @]
    /\ UNCHANGED <<orig, pc, ppExpires, atCall, hist, stored, prev, ret>>

ReadAll(o) == ContentRead(o, -1, "all")
ReadChunk(o) == \E n \in 1..MaxChunk : ContentRead(o, n, "chunk")

\* response.reset().  prev keeps what a read to the end had returned.
Reset(o) ==
    /\ Frozen(o)
    /\ ~Constructs(o)
    /\ objs' = [objs EXCEPT ![o] = Some(reset(objs[o][1]))]
    /\ prev' = IF got[o].how # "" /\ AtEof(objs[o][1]._content[1])
               THEN Some([o |-> o, data |-> got[o].data])
               ELSE IF ~IsNone(prev) /\ prev[1].o = o THEN None ELSE prev
    /\ got' = [got EXCEPT ![o] = NoReads]
    /\ UNCHANGED <<orig, pc, ppExpires, atCall, hist, stored, made, ret>>

\* The values a caller assigns to headers: the received ones without the
\* Content-Type header, and the Content-Type header alone.
HeaderValues == { DecodeHeaders(RawPlain), DecodeHeaders(<< HdrCharset >>) }

\* response.headers = v, on the response before or after build, or on a view.
SetHeaders(o) ==
    /\ ~IsNone(objs[o])
    /\ o = 0 => pc \in {"live", "built"}
    /\ \E v \in HeaderValues :
          /\ objs[o][1]._headers # v
          /\ objs' = [objs EXCEPT ![o] = Some([objs[o][1] EXCEPT !._headers = v])]
    /\ UNCHANGED <<orig, pc, ppExpires, atCall, hist, stored, made, got, prev, ret>>

\* response.is_expired, evaluated at time now
EvalIsExpired(o) ==
    /\ Frozen(o)
    /\ \E now \in Times :
         ret' = Some([op      |-> "is_expired",
                      expires |-> IF "expires" \in DOMAIN objs[o][1]
                                  THEN Some(objs[o][1].expires) ELSE None,
                      now     |-> now,
                      out     |-> is_expired(objs[o][1], now)])
    /\ UNCHANGED <<orig, objs, pc, ppExpires, atCall, hist, stored, made, got, prev>>

\* response.request_info
ReadRequestInfo(o) ==
    /\ Frozen(o)
    /\ ret' = Some([op |-> "request_info", o |-> o, out |-> request_info(objs[o][1])])
    /\ UNCHANGED <<orig, objs, pc, ppExpires, atCall, hist, stored, made, got, prev>>

----------------------------------------------------------------------------
(* Specifications *)

Build ==
    \/ LiveRead
    \/ LiveStreamRead
    \/ LiveRelease
    \/ PostprocessCall
    \/ DrainDone
    \/ DrainFail
    \/ HistoryEntry
    \/ HistoryEntryFail
    \/ PostprocessReturn
    \/ Save

\* The caller that holds the built response, and one cache hit beside it.
Holders == {0, 1}

Streams(O) ==
    \/ \E o \in O : ContentAccess(o)
    \/ \E o \in O : ReadAll(o)
    \/ \E o \in O : ReadChunk(o)
    \/ \E o \in O : Reset(o)

Properties(O) ==
    \/ \E o \in O : EvalIsExpired(o)
    \/ \E o \in O : ReadRequestInfo(o)

\* Build, and the content of the built response and of a view of it.
Next ==
    \/ Build
    \/ Rehydrate(1)
    \/ Streams(Holders)

Spec == Init /\ [][Next]_vars

\* Two cache hits on the same stored state, read side by side.
NextReplay ==
    \/ Build
    \/ \E v \in Views : Rehydrate(v)
    \/ Streams(Views)

SpecReplay == Init /\ [][NextReplay]_vars

\* Expiry, also of records of the stored state that something else wrote.
NextExpiry ==
    \/ Build
    \/ Rehydrate(1)
    \/ RehydrateForeign(1)
    \/ \E o \in Holders : EvalIsExpired(o)

SpecExpiry == Init /\ [][NextExpiry]_vars

\* Everything a caller can do with a built response and a view of it, on a body
\* of one byte, without and with a history.
FrameResponses ==
    { ClientResponse("u0", 200, RawCharset, Take(FullBody, 1), "open", h) :
         h \in { << >>, << EntryReleased, EntryOpen >> } }

InitFrame == InitWith(FrameResponses)

NextFrame ==
    \/ Build
    \/ Rehydrate(1)
    \/ Streams(Holders)
    \/ Properties(Holders)

SpecFrame == InitFrame /\ [][NextFrame]_vars

\* The pickled state and what comes back from it: responses with and without a
\* charset header, a history, a Future and Trace objects, with headers assigned
\* by the caller before and after build and on the view.
StateResponses ==
    { ClientResponse("u0", 200, raw, Take(FullBody, 1), "open", << >>) :
         raw \in {RawCharset, RawPlain} }
    \cup { ClientResponse("u0", 200, RawCharset, Take(FullBody, 1), "open", h) :
              h \in { << EntryReleased, EntryOpen >>, << Traced(EntryReleased) >> } }
    \cup { Traced(ClientResponse("u0", 200, RawCharset, Take(FullBody, 1), "open", << >>)) }

InitState == InitWith(StateResponses)

NextState ==
    \/ Build
    \/ SaveFail
    \/ Rehydrate(1)
    \/ \E o \in Holders : SetHeaders(o)
    \/ \E o \in Holders : ReadRequestInfo(o)

SpecState == InitState /\ [][NextState]_vars

----------------------------------------------------------------------------
(* Properties *)

Hydrated(o) == ~IsNone(objs[o])
HasStream(o) == Hydrated(o) /\ ~IsNone(objs[o][1]._content)
Stream(o) == objs[o][1]._content[1]

\* The caller of o has read its current stream from the start to EOF.
ReadToEnd(o) == HasStream(o) /\ got[o].how # "" /\ AtEof(Stream(o))

\* The body an object holds, as bytes.
BodyBytes(obj) == IF IsNone(obj._body) THEN << >> ELSE obj._body[1]

\* Everything the server sent for the response.
Wire == orig.content.buf

\* postprocess() was called on a response whose whole body was still to be had:
\* in memory already, or unreleased with nothing taken out of its stream.
WholeAtCall ==
    /\ ~IsNone(atCall)
    /\ \/ atCall[1]._body = Some(Wire)
       \/ /\ IsNone(atCall[1]._body)
          /\ ~atCall[1]._released
          /\ atCall[1]._content[1].pos = 0

\* C1 -- Round trip: a view made by __setstate__ from the __getstate__ of a built
\* response returns, on a read of its content to the end, exactly the body B the
\* built response holds (the whole body the server sent when build got the
\* response with its body still whole), for every rehydration and every read.
C1_RoundTrip ==
    \A v \in Views :
        ReadToEnd(v) =>
            /\ got[v].data = BodyBytes(Self)
            /\ WholeAtCall => got[v].data = Wire

C1_Witness ==
    /\ ReadToEnd(1) /\ ReadToEnd(2)
    /\ got[1].data = Wire /\ Len(Wire) = MaxBody

\* C2 -- Idempotent re-read: a view read to the end, reset() and read to the end
\* again returns the same bytes both times, the body of the original response;
\* two cache hits read to the end return the same bytes.
C2_IdempotentReread ==
    /\ \A v \in Views :
          (~IsNone(prev) /\ prev[1].o = v /\ ReadToEnd(v)) =>
              /\ got[v].data = prev[1].data
              /\ prev[1].data = BodyBytes(Self)
    /\ \A v, w \in Views : (ReadToEnd(v) /\ ReadToEnd(w)) => got[v].data = got[w].data

C2_Witness ==
    /\ ~IsNone(prev) /\ prev[1].o = 1 /\ ReadToEnd(1)
    /\ Len(prev[1].data) = MaxBody

\* C3 -- Concurrent independence: of two views of the same stored state, read in
\* any interleaving, one with read() and one in chunks, each gets the complete
\* body and both get the same; a step on one view changes neither the other
\* view's stream position nor the stored state.
OtherViewsKept(v) ==
    \A w \in Views \ {v} : objs'[w] = objs[w] /\ got'[w] = got[w]
C3_Independent ==
    [][ /\ \A v \in Views :
             (objs'[v] # objs[v] \/ got'[v] # got[v]) => OtherViewsKept(v)
        /\ ~IsNone(stored) => stored' = stored
        /\ \A v, w \in Views :
             (ReadToEnd(v)' /\ got'[v].how = "all" /\ ReadToEnd(w)' /\ got'[w].how = "chunk")
                 => got'[v].data = BodyBytes(Self) /\ got'[w].data = got'[v].data
      ]_vars

C3_Witness ==
    /\ ReadToEnd(1) /\ got[1].how = "all" /\ Len(got[1].data) = MaxBody
    /\ ReadToEnd(2) /\ got[2].how = "chunk"

\* C9 -- Lazy content and reset: a view starts without a stream; the first access
\* to content constructs one from the body, at position 0; later accesses return
\* that stream with its position kept; after reset() the next access constructs
\* a new stream at position 0 over the same bytes.
LazyStep(v) ==
    LET a == objs[v][1]._content
        b == objs'[v][1]._content
    IN  /\ (IsNone(a) /\ ~IsNone(b)) =>
              /\ b[1].kind = "cached"
              /\ b[1].buf = BodyBytes(objs[v][1])
              /\ b[1].gen # made[v]
              /\ b[1].pos = Len(got'[v].data)
        /\ (~IsNone(a) /\ ~IsNone(b)) =>
              /\ b[1].gen = a[1].gen
              /\ b[1].buf = a[1].buf
              /\ b[1].pos = a[1].pos + (Len(got'[v].data) - Len(got[v].data))
C9_LazyContent ==
    [][ \A v \in Views :
           /\ (~Hydrated(v) /\ Hydrated(v)') => IsNone(objs'[v][1]._content)
           /\ (Hydrated(v) /\ Hydrated(v)') => LazyStep(v)
      ]_vars

C9_Witness ==
    /\ HasStream(1) /\ Stream(1).gen = 0 /\ Stream(1).pos = 0
    /\ ~IsNone(prev) /\ prev[1].o = 1 /\ Len(prev[1].data) = MaxBody

\* C4 -- is_expired is true exactly when expires is set and the current time is
\* strictly later than expires: true for an expires in the past, false for one in
\* the future or equal to the current time, false at every time for None.
IsExpiredRet == ~IsNone(ret) /\ ret[1].op = "is_expired"
C4_Expired ==
    (IsExpiredRet /\ ~IsNone(ret[1].expires)
                  /\ ret[1].expires[1].kind \in {"None", "datetime"}) =>
        /\ ret[1].out.raised = ""
        /\ ret[1].out.value = (/\ ret[1].expires[1].kind = "datetime"
                               /\ ret[1].now > ret[1].expires[1].t)

C4_Witness ==
    /\ IsExpiredRet /\ ~IsNone(ret[1].expires)
    /\ ret[1].expires[1].kind = "datetime" /\ ret[1].now = ret[1].expires[1].t
    /\ ret[1].out.value = FALSE

\* C5 -- Fail-safe expiry: is_expired of a snapshot whose expires attribute is
\* missing or cannot be compared with a timestamp is true, and no expires makes
\* is_expired raise.
C5_FailSafe ==
    IsExpiredRet =>
        /\ ret[1].out.raised = ""
        /\ (IsNone(ret[1].expires) \/ ret[1].expires[1].kind = "incomparable")
               => ret[1].out.value = TRUE

C5_Witness ==
    /\ IsExpiredRet /\ IsNone(ret[1].expires)
    /\ ret[1].out.raised = "" /\ ret[1].out.value = TRUE

\* C6 -- Redirect chain fidelity: the history of a built response has as many
\* entries as the history it was built from, in the same order, each built by
\* the same procedure (body captured, content a replay stream over it, its own
\* history built the same way), and each can be pickled and replayed on its own.
Replayed(e) ==
    LET v == content(loads(dumps(e)), 1)
    IN  StreamRead(v._content[1], -1).data
RECURSIVE EntryFaithful(_, _)
EntryFaithful(e, r) ==
    /\ e._url = r._url /\ e.status = r.status /\ e._raw_headers = r._raw_headers
    /\ e._body = IF ~r._released /\ IsNone(r._body)
                 THEN Some(Drop(r.content.buf, r.content.pos)) ELSE r._body
    /\ ~IsNone(e._content)
    /\ e._content[1] = [kind |-> "cached", buf |-> BodyBytes(e), pos |-> 0, gen |-> 1,
                        eof |-> TRUE]
    /\ "_encoding" \in DOMAIN e
    /\ StateExcluded \subseteq DOMAIN e
    /\ Replayed(e) = BodyBytes(e)
    /\ Len(e._history) = Len(r._history)
    /\ \A i \in 1..Len(r._history) : EntryFaithful(e._history[i], r._history[i])
C6_HistoryFidelity ==
    pc = "built" =>
        /\ Len(Self._history) = Len(orig._history)
        /\ \A i \in 1..Len(orig._history) :
              EntryFaithful(Self._history[i], orig._history[i])

C6_Witness ==
    /\ pc = "built"
    /\ Len(Self._history) = 2
    /\ Self._history[1]._url = "u2" /\ Len(Self._history[1]._history) = 1
    /\ Self._history[1]._body = Some(<<7, 8>>)

\* C7 as stated -- Drain before freeze: whenever build returns on a response
\* whose body was not yet in memory, the body has been read to completion, so
\* the captured body is the complete body, never empty or a prefix of it.
C7_DrainComplete ==
    (pc = "built" /\ IsNone(atCall[1]._body)) => BodyBytes(Self) = Wire

\* C7 as amended -- build reads only a response that is not released, and then
\* to the end of its stream: the captured body is everything that was left in
\* the stream, the complete body when nothing had been taken from it; a released
\* response keeps the body it had in memory, none when it had none.  The replay
\* stream serves the captured body.
C7_DrainUnlessReleased ==
    pc = "built" =>
        LET c == atCall[1]
        IN  /\ (~c._released /\ IsNone(c._body)) =>
                  Self._body = Some(Drop(Wire, c._content[1].pos))
            /\ (~c._released /\ IsNone(c._body) /\ c._content[1].pos = 0) =>
                  Self._body = Some(Wire)
            /\ (c._released \/ ~IsNone(c._body)) => Self._body = c._body
            /\ HasStream(0) => Stream(0).buf = BodyBytes(Self)

C7_Witness ==
    /\ pc = "built"
    /\ ~atCall[1]._released /\ IsNone(atCall[1]._body) /\ atCall[1]._content[1].pos = 0
    /\ Self._body = Some(Wire) /\ Len(Wire) = MaxBody
    /\ HasStream(0) /\ Stream(0).buf = Wire

\* C8 as stated -- Freeze transition: after build the content of the object it was
\* called on is a new replay stream from which the caller reads the complete
\* body again, also when the original stream had been partly or fully consumed.
C8_RereadComplete ==
    (pc = "built" /\ ReadToEnd(0)) => got[0].data = Wire

\* C8 as amended -- when build returns, the content of the object is a new replay
\* stream at the start of the captured body; the caller reads the captured body
\* from it, again after every reset(); that is the complete body when the body
\* was whole at the call (read with read() before, or untouched and unreleased).
C8_FreezeTransition ==
    [][ pc' = "built" =>
          /\ pc # "built" =>
                /\ HasStream(0)'
                /\ Stream(0)' = [kind |-> "cached", buf |-> BodyBytes(Self'), pos |-> 0,
                                 gen |-> made'[0], eof |-> TRUE]
                /\ atCall[1]._content[1].gen # made'[0]
          /\ HasStream(0)' =>
                /\ Stream(0)'.kind = "cached"
                /\ Stream(0)'.buf = BodyBytes(Self')
                /\ Stream(0)'.pos = Len(got'[0].data)
          /\ ReadToEnd(0)' =>
                /\ got'[0].data = BodyBytes(Self')
                /\ WholeAtCall' => got'[0].data = Wire'
      ]_vars

C8_Witness ==
    /\ pc = "built" /\ ReadToEnd(0)
    /\ atCall[1]._body = Some(Wire) /\ AtEof(atCall[1]._content[1])
    /\ got[0].data = Wire /\ Len(Wire) = MaxBody

\* C10 -- Snapshot immutability: once build has returned, no content access,
\* stream read, reset(), is_expired or request_info changes the status, reason,
\* version, raw headers, cookies, body, method, URL, history or expires of the
\* built response, of the stored state or of a view; expires is written during
\* build only.
SnapshotFields ==
    {"status", "reason", "version", "_raw_headers", "cookies", "_body", "method",
     "_url", "_history", "expires"}
RECURSIVE Snapshot(_)
Snapshot(obj) ==
    [k \in SnapshotFields |->
        IF k = "_history"
        THEN [i \in 1..Len(obj._history) |-> Snapshot(obj._history[i])]
        ELSE obj[k]]
C10_Immutable ==
    [][ /\ pc = "built" => (pc' = "built" /\ Snapshot(objs'[0][1]) = Snapshot(objs[0][1]))
        /\ ~IsNone(stored) => stored' = stored
        /\ \A v \in Views :
             (Hydrated(v) /\ Hydrated(v)') => Snapshot(objs'[v][1]) = Snapshot(objs[v][1])
        /\ \A v \in Views :
             Hydrated(v)' => Snapshot(objs'[v][1]) = Snapshot(stored'[1])
        /\ objs'[0][1].expires # objs[0][1].expires => pc \in {"live", "draining"}
      ]_vars

C10_Witness ==
    /\ pc = "built" /\ ~IsNone(stored)
    /\ ~IsNone(prev) /\ prev[1].o = 0
    /\ ReadToEnd(1)
    /\ ~IsNone(ret) /\ ret[1].op = "request_info"
    /\ Len(Self._history) = 2

\* What build sets on the object, as another holder of the object reads it.
BuildSets(obj) ==
    [content  |-> obj._content,
     expires  |-> obj.expires,
     history  |-> obj._history,
     encoding |-> IF "_encoding" \in DOMAIN obj THEN Some(obj._encoding) ELSE None]

\* postprocess() is suspended in the await of a body: its own, or that of the
\* next entry of the history.
Suspended ==
    \/ pc = "draining" /\ IsNone(Self._body)
    \/ /\ pc = "history"
       /\ Len(hist) < Len(Self._history)
       /\ Drains(Self._history[Len(hist) + 1])

\* C11 -- No partial snapshot is observable: wherever build is suspended (the
\* draining of the response's body and of the body of each history entry), a
\* holder of the object sees content, expires, history and encoding as they were
\* before build, or the built snapshot, never some of them set and not the rest.
C11_NoPartialSnapshot ==
    Suspended =>
        \/ BuildSets(Self) = BuildSets(atCall[1])
        \/ /\ "_encoding" \in DOMAIN Self
           /\ Self._history = hist
           /\ Self._content = Some(CachedStreamReader(Self._body, made[0]))
           /\ Self.expires = ppExpires

\* postprocess() ended with the error of a read that did not complete.
Aborted ==
    /\ pc = "failed"
    /\ ~IsNone(ret) /\ ret[1].op = "postprocess" /\ ret[1].drain # ""

\* C12 -- Abort safety: when build is cancelled or fails while draining a body,
\* content, expires, history and encoding of the response are as before the call,
\* nothing has been handed to storage, and the response can still be read.
C12_AbortSafe ==
    Aborted =>
        /\ BuildSets(Self) = BuildSets(atCall[1])
        /\ IsNone(stored)
        /\ ~ReadRaises(Self)

\* C13 -- Drain failure propagates: when the read of a body during build ends
\* with a transport error, build ends by raising that error: it does not go on
\* to return a snapshot, raise something else, or read again.
C13_DrainErrorPropagates ==
    (~IsNone(ret) /\ ret[1].op = "postprocess" /\ ret[1].drain # "") =>
        /\ pc = "failed"
        /\ ret[1].raised = ret[1].drain
        /\ ret[1].drain \in DrainErrors
        /\ "_encoding" \notin DOMAIN Self
        /\ IsNone(stored)
        /\ Self._content[1].kind = "live" => IsNone(Self._body)

C13_Witness ==
    /\ pc = "failed"
    /\ ~IsNone(ret) /\ ret[1].op = "postprocess"
    /\ ret[1].drain = "ClientPayloadError" /\ ret[1].raised = "ClientPayloadError"
    /\ Self._content[1].kind = "live" /\ IsNone(Self._body)

\* C14 -- Self-contained serialized form: the state __getstate__ produces for a
\* built response, the states of its history entries included, holds no handle
\* to a transport, connection, protocol, event loop, timer or session.
C14_SelfContained ==
    pc = "built" => HandlesIn(dumps(Self)) = {}

\* C15 -- Serializing a built response that still references a transient object
\* fails with SerializationError, raised by the builder before the state reaches
\* the storage backend.
C15_SerializationError ==
    (/\ pc = "built" /\ HandlesIn(dumps(Self)) # {}
     /\ ~IsNone(ret) /\ ret[1].op = "dumps") =>
        /\ ret[1].raised = "SerializationError"
        /\ ret[1].at = "builder"

\* The sizes a caller reads with: read() and every chunk size.
ReadSizes == {-1} \cup (1..MaxChunk)

\* C16 -- Replay stream construction: a replay stream is constructed over every
\* body, a None body as empty bytes; it holds exactly the body bytes with EOF fed,
\* at position 0 until it is read, and no read on it waits for more data.
C16_ReplayStream ==
    \A o \in ObjIds :
        (HasStream(o) /\ Stream(o).kind = "cached") =>
            /\ Stream(o).eof
            /\ Stream(o).buf = BodyBytes(objs[o][1])
            /\ IsNone(objs[o][1]._body) => Stream(o).buf = << >>
            /\ got[o].how = "" => Stream(o).pos = 0
            /\ \A n \in ReadSizes :
                  /\ ~Waits(Stream(o), n)
                  /\ ~Waits(StreamRead(Stream(o), n).stream, n)
            /\ StreamRead([Stream(o) EXCEPT !.pos = 0], -1).data = BodyBytes(objs[o][1])

C16_Witness ==
    /\ pc = "built" /\ IsNone(Self._body)
    /\ HasStream(0) /\ Stream(0).kind = "cached" /\ Stream(0).eof
    /\ Stream(0).buf = << >>
    /\ ReadToEnd(0) /\ got[0].data = << >>
    /\ Hydrated(1) /\ ReadToEnd(1) /\ got[1].data = << >>

\* The fields of C17, those of the history entries included; an attribute the
\* object does not have reads as None.
CapturedFields ==
    {"status", "reason", "version", "method", "_url", "cookies", "_raw_headers",
     "created_at", "last_used", "expires", "_history"}
RECURSIVE Captured(_)
Captured(obj) ==
    [k \in CapturedFields |->
        IF k \notin DOMAIN obj THEN None
        ELSE IF k = "_history"
             THEN Some([i \in 1..Len(obj._history) |-> Captured(obj._history[i])])
        ELSE Some(obj[k])]

\* What a caller read on the live response r when build captured it.
OnLive(r) ==
    [k \in {"status", "reason", "version", "method", "_url", "cookies", "_raw_headers"}
        |-> Some(r[k])]

\* C17 -- Field fidelity: the view unpickled from the pickled state of a built
\* response has the status, reason, version, method, URL, cookies, raw headers,
\* created_at, last_used, expires and history captured at build: those of the
\* built response, which are those of the live response and the expires given.
C17_FieldFidelity ==
    \A v \in Views :
        Hydrated(v) =>
            LET c == Captured(objs[v][1])
            IN  /\ c = Captured(Self)
                /\ \A k \in DOMAIN OnLive(orig) : c[k] = OnLive(orig)[k]
                /\ c.expires = Some(ppExpires)
                /\ c.created_at = Some(0) /\ c.last_used = Some(0)
                /\ Len(c._history[1]) = Len(orig._history)
                /\ \A i \in 1..Len(orig._history) :
                      \A k \in DOMAIN OnLive(orig) :
                          c._history[1][i][k] = OnLive(orig._history[i])[k]

C17_Witness ==
    /\ Hydrated(1)
    /\ objs[1][1].status = 200 /\ objs[1][1].expires = ExpAt(1)
    /\ Len(objs[1][1]._history) = 2
    /\ objs[1][1]._history[2]._url = "u2"
    /\ objs[1][1]._history[2].created_at = MaxTime - 1
    /\ Len(objs[1][1]._history[2]._history) = 1

\* bytes.decode('utf-8', 'surrogateescape') of the header bytes in use, as a table:
\* \xff is the lone surrogate U+DCFF, \xc3\xa9 the character U+00E9.
Utf8SurrogateEscape(bs) ==
    CASE bs = <<97, 255>>  -> <<97, 56575>>
      [] bs = <<195, 169>> -> <<233>>
      [] OTHER             -> bs
ExpectedHeaders(raw) ==
    [i \in 1..Len(raw) |->
        << Utf8SurrogateEscape(raw[i][1]), Utf8SurrogateEscape(raw[i][2]) >>]

\* A state has no headers, and what is unpickled from it has the headers decoded
\* from its raw headers; so for the states and responses of its history.
RECURSIVE HeadersDerived(_, _)
HeadersDerived(state, view) ==
    /\ "_headers" \notin DOMAIN state
    /\ view._headers = ExpectedHeaders(state._raw_headers)
    /\ Len(view._headers) = Len(state._raw_headers)
    /\ \A i \in 1..Len(state._history) :
          HeadersDerived(state._history[i], view._history[i])

\* C18 -- Headers are re-derived, not stored: the pickled state has no headers;
\* the headers of a view are the UTF-8 (surrogateescape) decoding of the stored
\* raw header pairs, in order, repeated names kept, whatever was assigned to
\* headers before pickling; an assignment to headers sets them, and request_info
\* returns the headers the object has when it is read.
C18_HeadersDerived ==
    [][ /\ \A v \in Views :
             (Hydrated(v)' /\ (~Hydrated(v) \/ objs'[v][1]._headers # objs[v][1]._headers)) =>
                 \/ /\ objs'[v][1]._headers \in HeaderValues
                    /\ ret' = ret
                    /\ Hydrated(v)
                    /\ objs'[v][1]._headers # ExpectedHeaders(stored[1]._raw_headers)
                 \/ HeadersDerived(stored[1], objs'[v][1])
        /\ (ret' # ret /\ ret'[1].op = "request_info") =>
              /\ ret'[1].out.headers = objs[ret'[1].o][1]._headers
              /\ objs' = objs
      ]_vars

C18_Witness ==
    /\ pc = "built" /\ Hydrated(1)
    /\ atCall[1]._headers = DecodeHeaders(<< HdrCharset >>)
    /\ Self._headers = DecodeHeaders(<< HdrCharset >>)
    /\ objs[1][1]._headers = << << <<88>>, <<97, 56575>> >>, << <<67>>, <<117>> >>,
                                << <<120>>, <<233>> >> >>
    /\ ~IsNone(ret) /\ ret[1].op = "request_info" /\ ret[1].o = 0
    /\ ret[1].out.headers = DecodeHeaders(<< HdrCharset >>)

\* The encoding of a response with the given headers: the charset of its
\* Content-Type header ("C"), else the answer of the session's resolver.
ExpectedEncoding(headers) ==
    IF \E i \in 1..Len(headers) : headers[i][1] = <<67>> THEN "utf-8" ELSE "windows-1252"

\* e and the entries of its history hold the encoding of the responses they were
\* built from, as a plain value that get_encoding returns.
RECURSIVE EncodingStored(_, _)
EncodingStored(e, r) ==
    /\ "_encoding" \in DOMAIN e
    /\ e._encoding = ExpectedEncoding(r._headers)
    /\ get_encoding(e) = ExpectedEncoding(r._headers)
    /\ Len(e._history) = Len(r._history)
    /\ \A i \in 1..Len(r._history) : EncodingStored(e._history[i], r._history[i])

RECURSIVE NoResolver(_)
NoResolver(st) ==
    /\ "_resolve_charset" \notin DOMAIN st
    /\ \A i \in 1..Len(st._history) : NoResolver(st._history[i])

\* C19 -- Encoding is resolved at build: a built response and every entry of its
\* history hold the encoding resolved during build as a plain value; get_encoding
\* returns it, on the built response and on a view, whatever the headers are by
\* then; the pickled state and the view have no _resolve_charset.
C19_EncodingAtBuild ==
    pc = "built" =>
        LET live == [orig EXCEPT !._headers = atCall[1]._headers]
        IN  /\ EncodingStored(Self, live)
            /\ ~IsNone(stored) => NoResolver(stored[1]) /\ stored[1]._encoding = Self._encoding
            /\ \A v \in Views :
                  Hydrated(v) => EncodingStored(objs[v][1], live) /\ NoResolver(objs[v][1])

C19_Witness ==
    /\ pc = "built" /\ Hydrated(1)
    /\ ~IsNone(HeaderCharset(atCall[1]._headers))
    /\ IsNone(HeaderCharset(Self._headers)) /\ IsNone(HeaderCharset(objs[1][1]._headers))
    /\ get_encoding(Self) = "utf-8" /\ get_encoding(objs[1][1]) = "utf-8"
    /\ Len(Self._history) = 2
    /\ get_encoding(objs[1][1]._history[2]) = "windows-1252"

\* e and the entries of its history have expires None and are not expired at
\* any time.
RECURSIVE NeverExpires(_)
NeverExpires(e) ==
    /\ "expires" \in DOMAIN e
    /\ e.expires = ExpNone
    /\ \A now \in Times : is_expired(e, now) = [raised |-> "", value |-> FALSE]
    /\ \A i \in 1..Len(e._history) : NeverExpires(e._history[i])

\* C20 -- Every history entry of a built response has no expiration, whatever
\* expires was given for the response: its expires is None and its is_expired is
\* false at every time, on the built response and on a view, also when the
\* response itself is expired.
C20_EntriesNeverExpire ==
    /\ pc = "built" =>
          \A i \in 1..Len(Self._history) : NeverExpires(Self._history[i])
    /\ \A v \in Views :
          Hydrated(v) =>
              \A i \in 1..Len(objs[v][1]._history) : NeverExpires(objs[v][1]._history[i])

C20_Witness ==
    /\ pc = "built" /\ Hydrated(1)
    /\ ppExpires = ExpAt(1)
    /\ is_expired(objs[1][1], MaxTime).value
    /\ ~IsNone(ret) /\ ret[1].op = "is_expired" /\ ret[1].out.value
    /\ Len(objs[1][1]._history) = 2
    /\ Len(objs[1][1]._history[2]._history) = 1
    /\ ~is_expired(objs[1][1]._history[2]._history[1], MaxTime).value

====
